---- MODULE Spec2Model ----
(***************************************************************************)
(* A model of the automata crate's DFA (automata/src/dfa.rs) and of its    *)
(* Match value (automata/src/matching.rs): the builder operations          *)
(* new / add_state / add_transition and the execution operations           *)
(* iter_on_next / is_match / find / find_at / find_shortest /              *)
(* find_shortest_at, all of which run find_at_impl.                        *)
(*                                                                         *)
(* Option<T> is modelled as a sequence of length at most one:              *)
(* None is <<>> and Some(x) is <<x>>.                                      *)
(***************************************************************************)
EXTENDS Integers, Sequences, FiniteSets, TLC

\* ------------------------------------------------------------------ bounds

\* usize is modelled with UsizeBits bits, so that start + 1 can overflow.
UsizeBits == 3
\* The DFAs that are executed have at most MaxStates states ...
MaxStates == 2
\* ... and at most MaxTransitions transitions.
MaxTransitions == 2
\* The longest input handed to is_match / find*.
MaxLen == 2
\* The largest start handed to find_at / find_shortest_at.
MaxStart == 1
\* The builder calls add_state while total_states < MaxBuilt ...
MaxBuilt == 3
\* ... and add_transition while the table keeps at most MaxTable entries.
MaxTable == 1
MaxSrcLen == 4

USIZE_MAX == 2^UsizeBits - 1
USize == 0..USIZE_MAX

\* The input alphabet. T = I::Item: a transition label is an input symbol.
Symbols == {"a", "b"}

None == <<>>
Some(x) == <<x>>

RECURSIVE SeqsUpTo(_)
SeqsUpTo(n) ==
    IF n = 0 THEN {<<>>}
    ELSE LET shorter == SeqsUpTo(n - 1)
         IN  shorter \cup {Append(s, x) : s \in {t \in shorter : Len(t) = n - 1}, x \in Symbols}

Inputs == SeqsUpTo(MaxLen)

\* ------------------------------------------------------------------- state

VARIABLES
    initial_state,   \* DFA::initial_state
    total_states,    \* DFA::total_states
    final_states,    \* DFA::final_states
    transition,      \* DFA::transition, the set of <<from, label, to>> entries
    issued,          \* the labels add_state has returned, in call order
    arg_input,       \* the input sequence handed to is_match / find*
    arg_start,       \* the start handed to find_at / find_shortest_at
    ret,             \* the last call: [op, args, val, read], read being the
                     \* number of input symbols the call took from its input
    iters,           \* the live Iter objects over the DFA: [input, current] each
    yielded,         \* per Iter, what its next() calls have returned, in call order
    expr,            \* the source handed to Parser::parse
    parse_ret        \* what Parser::parse returned for expr

vars == <<initial_state, total_states, final_states, transition, issued, arg_input,
          arg_start, ret, iters, yielded, expr, parse_ret>>

dfa == <<initial_state, total_states, final_states, transition>>

\* ------------------------------------------------------------------- Table

\* Table::set(row, col, value): insert or overwrite the cell (row, col).
TableSet(table, row, col, value) ==
    {e \in table : ~(e[1] = row /\ e[2] = col)} \cup {<<row, col, value>>}

\* Table::get_row(row): the row's col -> value view, empty if absent.
TableGetRow(table, row) == {<<e[2], e[3]>> : e \in {x \in table : x[1] = row}}

\* --------------------------------------------------------------- DFA::new

new ==
    /\ initial_state = 0
    /\ total_states = 1
    /\ final_states = {}
    /\ transition = {}

\* ------------------------------------------------------------ usize arith

\* start + 1 with overflow checks off: wraps around.
WrappingAdd(x, y) == (x + y) % (USIZE_MAX + 1)
\* start + 1 overflows usize.
Overflows(x, y) == x + y > USIZE_MAX

\* --------------------------------------------------------------- builder

\* A panic unwinds out of the call; it is no Option value.
Panic == <<"panic", "attempt to add with overflow">>

\* add_state that marks every new state as accepting.
FinalAfterAddAlways(label, is_final) == final_states \cup {label}

\* if is_final { self.final_states.insert(label); }
FinalAfterAdd(label, is_final) ==
    IF is_final THEN final_states \cup {label} ELSE final_states

add_state(is_final) ==
    LET label == total_states
    IN  /\ total_states' = total_states + 1
        /\ final_states' = FinalAfterAdd(label, is_final)
        /\ issued' = Append(issued, label)
        /\ ret' = [op |-> "add_state", args |-> <<is_final>>, val |-> Some(label),
                   read |-> 0]
        /\ UNCHANGED <<initial_state, transition, arg_input, arg_start, iters, yielded, expr,
                     parse_ret>>

\* self.total_states < start + 1 || self.total_states < end + 1, as a build
\* without overflow checks evaluates it (the additions wrap).
InvalidEndpoints(start, end) ==
    total_states < WrappingAdd(start, 1) \/ total_states < WrappingAdd(end, 1)

\* The same condition reaches an overflowing addition: start + 1 is evaluated
\* first, end + 1 only if the left operand of || is false.
EndpointCheckOverflows(start, end) ==
    \/ Overflows(start, 1)
    \/ ~(total_states < start + 1) /\ Overflows(end, 1)

\* add_transition. When an addition overflows, a build with overflow checks
\* panics before the table is touched and a build without them wraps.
add_transition(start, end, label) ==
    /\ \/ /\ EndpointCheckOverflows(start, end)
          /\ ret' = [op |-> "add_transition", args |-> <<start, end, label>>, val |-> Panic,
                     read |-> 0]
          /\ UNCHANGED transition
       \/ /\ InvalidEndpoints(start, end)
          /\ ret' = [op |-> "add_transition", args |-> <<start, end, label>>, val |-> None,
                     read |-> 0]
          /\ UNCHANGED transition
       \/ /\ ~InvalidEndpoints(start, end)
          /\ transition' = TableSet(transition, start, label, end)
          /\ ret' = [op |-> "add_transition", args |-> <<start, end, label>>,
                     val |-> Some("()"), read |-> 0]
    /\ UNCHANGED <<initial_state, total_states, final_states, issued, arg_input, arg_start,
                 iters, yielded, expr, parse_ret>>

transitions_on(state) == TableGetRow(transition, state)

is_final_state(state) == \E s \in final_states : s = state

\* ------------------------------------------------------------- execution

\* let x = r; then(x), with r evaluated once.
Bind(r, then(_)) == CHOOSE y \in {then(x) : x \in {r}} : TRUE

\* T: PartialEq<I::Item>, *t == is, for T = I::Item.
Matches(t, is) == t = is

\* iter_on: the iterator state is the input left to read and the current state.
iter_on(input) == [input |-> input, current |-> initial_state]

\* iter_on_next: [item |-> Option<(state, symbol, is_final)>, iter |-> the iterator after the call].
iter_on_next(iter) ==
    IF iter.input = <<>>
    THEN [item |-> None, iter |-> iter]
    ELSE LET state == iter.current
             is == Head(iter.input)
             rest == [input |-> Tail(iter.input), current |-> state]
             found == {e \in transitions_on(state) : Matches(e[1], is)}
         IN  IF found = {}
             THEN [item |-> None, iter |-> rest]
             ELSE LET next_state == (CHOOSE e \in found : TRUE)[2]
                  IN  [item |-> Some(<<next_state, is, is_final_state(next_state)>>),
                       iter |-> [input |-> Tail(iter.input), current |-> next_state]]

\* Iterator::last: next() until it returns None, keeping the last item.
\* [last |-> the last item, iter |-> the iterator after the call].
RECURSIVE IterLast(_, _)
IterLast(iter, acc) ==
    LET r == iter_on_next(iter)
    IN  IF r.item = None THEN [last |-> acc, iter |-> r.iter] ELSE IterLast(r.iter, r.item)

\* is_match and the iterator it leaves behind.
is_match_run(input) == IterLast(iter_on(input), None)

is_match(input) ==
    LET l == is_match_run(input).last
    IN  IF l # None THEN l[1][3] ELSE FALSE

\* Match::new
MatchNew(start, end, span) == [start |-> start, end |-> end, span |-> span]

\* Iterator::nth(n) on the stepping iterator: n calls of next() whose items
\* are dropped, ending at the first None, and then one more call.
RECURSIVE IterNth(_, _)
IterNth(iter, n) ==
    LET r == iter_on_next(iter)
    IN  IF n = 0 \/ r.item = None THEN r ELSE IterNth(r.iter, n - 1)

\* Skip::next on self.iter_on(input).skip(start): the first call is nth(start)
\* of the stepping iterator, every later call is its next().
SkipNext(skip) ==
    LET r == IF skip.n > 0 THEN IterNth(skip.iter, skip.n) ELSE iter_on_next(skip.iter)
    IN  [item |-> r.item, skip |-> [iter |-> r.iter, n |-> 0]]

\* Rc::new(is): the allocation made by iteration i of the loop, a new one in
\* every iteration. A reference is the allocation it points to and the value
\* stored there.
RcNew(i, is) == [alloc |-> i, value |-> is]

\* span.push(is_rc)
SpanPush(span, is_rc) == Append(span, is_rc)

\* The loop records every state it enters, final or not.
RecordMatchAlways(last_match, is_final, start, i, span) ==
    Some(MatchNew(start, i + 1, span))

\* The loop keeps the first match it recorded.
RecordMatchFirst(last_match, is_final, start, i, span) ==
    IF is_final /\ last_match = None
    THEN Some(MatchNew(start, i + 1, span))
    ELSE last_match

\* if is_final { last_match = Some(Match::new(start, i + 1, span.clone())); ... }
RecordMatch(last_match, is_final, start, i, span) ==
    IF is_final
    THEN Some(MatchNew(start, i + 1, span))
    ELSE last_match

\* The loop without its break.
BreaksNever(is_final, shortest) == FALSE

\* if is_final { ...; if shortest { break; } }
Breaks(is_final, shortest) == is_final /\ shortest

\* for (i, (s, is, is_final)) in iter { ... }: one iteration per call.
RECURSIVE ForLoop(_, _, _, _, _, _, _)
ForLoop(skip, i, span, state, last_match, start, shortest) ==
    LET r == SkipNext(skip)
    IN  IF r.item = None
        THEN [last_match |-> last_match, state |-> state, iter |-> r.skip.iter,
              span |-> span]
        ELSE LET s == r.item[1][1]
                 is == r.item[1][2]
                 is_final == r.item[1][3]
                 span2 == SpanPush(span, RcNew(i, is))
                 last_match2 == RecordMatch(last_match, is_final, start, i, span2)
             IN  IF Breaks(is_final, shortest)
                 THEN [last_match |-> last_match2, state |-> s, iter |-> r.skip.iter,
                       span |-> span2]
                 ELSE ForLoop(r.skip, i + 1, span2, s, last_match2, start, shortest)

\* The buffer is still alive when the result is finalized.
SpanOutlivesBlock(span) == <<span>>

\* The end of the block that declares span (the closing brace of
\* if !(shortest && last_match.is_some()) { ... }): span goes out of scope and
\* its references are released. The vectors of references, last_match aside,
\* that are alive after the block.
ScopeEnd(span) == <<>>

\* find_at_impl up to the end of the loop: last_match, state, the iterator, and
\* the vectors of references that are alive besides last_match. A match that
\* last_match = Some(..) replaces is dropped by the assignment.
find_at_run(input, start, shortest) ==
    LET last_match == IF is_final_state(initial_state)
                      THEN Some(MatchNew(start, start, <<>>))
                      ELSE None
        state == initial_state
    IN  IF ~(shortest /\ last_match # None)
        THEN Bind(ForLoop([iter |-> iter_on(input), n |-> start], 0, <<>>, state,
                          last_match, start, shortest),
                  LAMBDA loop :
                      [last_match |-> loop.last_match, state |-> loop.state,
                       iter |-> loop.iter, live |-> ScopeEnd(loop.span)])
        ELSE [last_match |-> last_match, state |-> state, iter |-> iter_on(input),
              live |-> <<>>]

\* Rc::strong_count: the references to the allocation of rc that are alive,
\* one in each of the vectors vecs that holds it (span.clone() copies each
\* reference once).
strong_count(rc, vecs) ==
    Cardinality({k \in DOMAIN vecs : \E j \in DOMAIN vecs[k] : vecs[k][j].alloc = rc.alloc})

\* Rc::try_unwrap(rc): Ok(value), here Some(value), if rc is the only
\* reference to its allocation, Err(rc), here None, otherwise.
try_unwrap(rc, vecs) == IF strong_count(rc, vecs) = 1 THEN Some(rc.value) ELSE None

\* unreachable!("MatchRc somehow had lingering references")
Unreachable == <<"panic", "MatchRc somehow had lingering references">>

\* find_at_impl: last_match.map(|m| (Match::new(m.start, m.end, span), state)),
\* span being m.span with every reference unwrapped.
find_at_impl(input, start, shortest) ==
    Bind(find_at_run(input, start, shortest),
         LAMBDA run :
             IF run.last_match = None
             THEN None
             ELSE LET m == run.last_match[1]
                      vecs == <<m.span>> \o run.live
                  IN  Bind([k \in DOMAIN m.span |-> try_unwrap(m.span[k], vecs)],
                           LAMBDA span :
                               IF \E k \in DOMAIN span : span[k] = None
                               THEN Unreachable
                               ELSE Some(<<MatchNew(m.start, m.end,
                                                    [k \in DOMAIN span |-> span[k][1]]),
                                           run.state>>)))

find_shortest_at(input, start) == find_at_impl(input, start, TRUE)
find_shortest(input) == find_shortest_at(input, 0)
find_at(input, start) == find_at_impl(input, start, FALSE)
find(input) == find_at(input, 0)

\* The number of symbols a call took from its input, given the input it left.
Read(input, iter) == Len(input) - Len(iter.input)

\* ------------------------------------------------------------ the calls

\* The queries take &self and change nothing of the DFA or of their arguments,
\* so a query made after another one returns what it returns when made first:
\* each behaviour makes one query on the DFA and the arguments it has drawn.
IsMatch ==
    /\ ret.op = "new"
    /\ ret' = [op |-> "is_match", args |-> <<arg_input>>, val |-> Some(is_match(arg_input)),
               read |-> Read(arg_input, is_match_run(arg_input).iter)]
    /\ UNCHANGED <<dfa, issued, arg_input, arg_start, iters, yielded, expr, parse_ret>>

Find ==
    /\ ret.op = "new"
    /\ ret' = [op |-> "find", args |-> <<arg_input, 0>>, val |-> find(arg_input),
               read |-> Read(arg_input, find_at_run(arg_input, 0, FALSE).iter)]
    /\ UNCHANGED <<dfa, issued, arg_input, arg_start, iters, yielded, expr, parse_ret>>

FindAt ==
    /\ ret.op = "new"
    /\ ret' = [op |-> "find_at", args |-> <<arg_input, arg_start>>,
               val |-> find_at(arg_input, arg_start),
               read |-> Read(arg_input, find_at_run(arg_input, arg_start, FALSE).iter)]
    /\ UNCHANGED <<dfa, issued, arg_input, arg_start, iters, yielded, expr, parse_ret>>

FindShortest ==
    /\ ret.op = "new"
    /\ ret' = [op |-> "find_shortest", args |-> <<arg_input, 0>>,
               val |-> find_shortest(arg_input),
               read |-> Read(arg_input, find_at_run(arg_input, 0, TRUE).iter)]
    /\ UNCHANGED <<dfa, issued, arg_input, arg_start, iters, yielded, expr, parse_ret>>

FindShortestAt ==
    /\ ret.op = "new"
    /\ ret' = [op |-> "find_shortest_at", args |-> <<arg_input, arg_start>>,
               val |-> find_shortest_at(arg_input, arg_start),
               read |-> Read(arg_input, find_at_run(arg_input, arg_start, TRUE).iter)]
    /\ UNCHANGED <<dfa, issued, arg_input, arg_start, iters, yielded, expr, parse_ret>>

\* --------------------------------------------------------- specifications

NoCall == [op |-> "new", args |-> <<>>, val |-> None, read |-> 0]

\* The builder: DFA::new(), then add_state and add_transition calls whose
\* endpoint labels are the first state, the last state, one past it, or the
\* largest usize.
Endpoints == {0, total_states - 1, total_states, USIZE_MAX}

Init ==
    /\ new
    /\ issued = <<>>
    /\ arg_input = <<>>
    /\ arg_start = 0
    /\ ret = NoCall
    /\ iters = <<>>
    /\ yielded = <<>>
    /\ expr = <<>>
    /\ parse_ret = NoCall

AddState ==
    /\ total_states < MaxBuilt
    /\ \E is_final \in BOOLEAN : add_state(is_final)

AddTransition ==
    \E start \in Endpoints, end \in Endpoints, label \in Symbols :
        /\ add_transition(start, end, label)
        /\ Cardinality(transition') <= MaxTable

Next ==
    \/ AddState
    \/ AddTransition

Spec == Init /\ [][Next]_vars

\* Execution: the DFA and the arguments are drawn at the start, and every
\* query is applied to them. The DFAs are those with at most MaxStates states,
\* at most MaxTransitions transitions between existing states, any set of
\* existing states accepting (final_states is a public field, which the code
\* that determinizes an NFA fills in, the initial state included).
Cells(n) == (0..(n - 1)) \X Symbols

Tables(n) ==
    {{<<c[1], c[2], f[c]>> : c \in {d \in Cells(n) : f[d] # n}} : f \in [Cells(n) -> 0..n]}

InitExec ==
    /\ initial_state = 0
    /\ total_states \in 1..MaxStates
    /\ final_states \in SUBSET (0..(total_states - 1))
    /\ transition \in {t \in Tables(total_states) : Cardinality(t) <= MaxTransitions}
    /\ issued = [i \in 1..(total_states - 1) |-> i]
    /\ arg_input \in Inputs
    /\ arg_start \in 0..MaxStart
    /\ ret = NoCall
    /\ iters = <<>>
    /\ yielded = <<>>
    /\ expr = <<>>
    /\ parse_ret = NoCall

NextExec ==
    \/ IsMatch
    \/ Find
    \/ FindAt
    \/ FindShortest
    \/ FindShortestAt

SpecExec == InitExec /\ [][NextExec]_vars

\* ------------------------------------------------- reference semantics

\* The target of the transition of state s on symbol x, if there is one.
Delta(s, x) == {e[3] : e \in {t \in transition : t[1] = s /\ t[2] = x}}

\* The states the automaton enters while it reads w from state s, up to the
\* first symbol that has no transition.
RECURSIVE Walk(_, _)
Walk(s, w) ==
    IF w = <<>> \/ Delta(s, Head(w)) = {}
    THEN <<>>
    ELSE LET t == CHOOSE q \in Delta(s, Head(w)) : TRUE
         IN  <<t>> \o Walk(t, Tail(w))

\* The state the automaton is in after k symbols of the walk W (k <= Len(W)).
StateAt(W, k) == IF k = 0 THEN initial_state ELSE W[k]

\* w is in the language of the DFA.
Accepts(w) ==
    LET W == Walk(initial_state, w)
    IN  Len(W) = Len(w) /\ StateAt(W, Len(w)) \in final_states

\* The positions 0..Len(W) of the walk over w at which the state is final.
FinalPositions(w) ==
    LET W == Walk(initial_state, w)
    IN  {k \in 0..Len(W) : StateAt(W, k) \in final_states}

SetMax(S) == CHOOSE m \in S : \A k \in S : k <= m
SetMin(S) == CHOOSE m \in S : \A k \in S : m <= k

FindOps == {"find", "find_at", "find_shortest", "find_shortest_at"}
ShortestOps == {"find_shortest", "find_shortest_at"}

\* The Match of a Some((Match, state)) result, and its state.
MatchOf(val) == val[1][1]
StateOf(val) == val[1][2]

\* ------------------------------------------------------------- the claims

\* C1: for every DFA and every non-empty input, is_match(input) is true
\* if and only if the input is in the language of the DFA.
C1_IsMatchIffAccepted ==
    (ret.op = "is_match" /\ arg_input # <<>>)
        => (ret.val = Some(TRUE) <=> Accepts(arg_input))

\* C2: is_match on the empty input is true if and only if the initial
\* state is final.
C2_EmptyInputMatchesIffInitialFinal ==
    (ret.op = "is_match" /\ arg_input = <<>>)
        => (ret.val = Some(TRUE) <=> initial_state \in final_states)

\* C3: every Match m returned by find, find_at, find_shortest or
\* find_shortest_at has m.start <= m.end and m.end - m.start = len(m.span).
C3_MatchBounds ==
    (ret.op \in FindOps /\ ret.val # None)
        => LET m == MatchOf(ret.val)
           IN  m.start <= m.end /\ m.end - m.start = Len(m.span)

\* The input without its first n symbols.
Drop(w, n) == SubSeq(w, n + 1, Len(w))

\* A find result with the start and the end of its match increased by n.
Shifted(val, n) ==
    IF val = None
    THEN None
    ELSE LET m == MatchOf(val)
         IN  Some(<<[start |-> m.start + n, end |-> m.end + n, span |-> m.span],
                    StateOf(val)>>)

\* C4: find_at(input, start) equals find on the input without its first
\* start symbols, with the match's start and end both increased by start.
C4_FindAtIsFindOnSuffix ==
    ret.op = "find_at"
        => ret.val = Shifted(find(Drop(arg_input, arg_start)), arg_start)

\* C5: find(input) is leftmost-longest from position 0: it returns the
\* match that ends at the last position at which the automaton was in a final
\* state before it died or the input ended (the empty match at 0 if only the
\* initial state is final), and nothing if and only if there is no such position.
C5_FindIsLeftmostLongest ==
    ret.op = "find"
        => LET P == FinalPositions(arg_input)
           IN  IF P = {}
               THEN ret.val = None
               ELSE /\ ret.val # None
                    /\ MatchOf(ret.val) = [start |-> 0, end |-> SetMax(P),
                                           span |-> SubSeq(arg_input, 1, SetMax(P))]

\* find returned a match that is neither the first final position nor the
\* end of what the automaton read: it went on after the match.
C5_Witness ==
    /\ ret.op = "find"
    /\ ret.val # None
    /\ Cardinality(FinalPositions(arg_input)) >= 2
    /\ MatchOf(ret.val).end >= 1
    /\ ret.read > MatchOf(ret.val).end

\* C6: find_shortest stops at the first final state: if the initial state is
\* final it returns Match(start, start, []) with the initial state and takes no
\* symbol from the input; otherwise it returns the match ending at the first
\* position at which a final state is entered and reads no further. The first
\* case and "reads no further" are stated for find_shortest_at too: a match it
\* returns ends in a final state, and every symbol read is one of the start
\* skipped symbols or is in the span.
C6_ShortestStopsAtFirstFinal ==
    ret.op \in ShortestOps
        => IF initial_state \in final_states
           THEN /\ ret.val = Some(<<[start |-> ret.args[2], end |-> ret.args[2],
                                     span |-> <<>>], initial_state>>)
                /\ ret.read = 0
           ELSE /\ ret.val # None
                    => /\ StateOf(ret.val) \in final_states
                       /\ ret.read = ret.args[2] + Len(MatchOf(ret.val).span)
                /\ (ret.op = "find_shortest" /\ FinalPositions(arg_input) # {})
                    => LET first == SetMin(FinalPositions(arg_input))
                       IN  /\ ret.val # None
                           /\ MatchOf(ret.val) = [start |-> 0, end |-> first,
                                                  span |-> SubSeq(arg_input, 1, first)]
                           /\ ret.read = first

\* find_shortest returned at the first of several final positions and left
\* input unread.
C6_Witness ==
    /\ ret.op = "find_shortest"
    /\ initial_state \notin final_states
    /\ ret.val # None
    /\ Cardinality(FinalPositions(arg_input)) >= 2
    /\ ret.read < Len(arg_input)

\* C7: the span of a returned Match is exactly the input symbols from the
\* search position up to the position at which the final state was recorded,
\* in input order, and under leftmost-longest no later position that the
\* automaton reached is final: what it read after the last final state is not
\* in the span.
C7_SpanEndsAtRecordedFinal ==
    (ret.op \in FindOps /\ ret.val # None)
        => LET m == MatchOf(ret.val)
               from == ret.args[2]
               to == from + Len(m.span)
               W == Walk(initial_state, arg_input)
           IN  /\ m.span = SubSeq(arg_input, from + 1, to)
               /\ IF m.span = <<>>
                  THEN initial_state \in final_states
                  ELSE to <= ret.read /\ to <= Len(W) /\ W[to] \in final_states
               /\ ret.op \notin ShortestOps
                      => \A k \in (to + 1)..Len(W) : W[k] \notin final_states

\* A leftmost-longest search read symbols beyond a non-empty match.
C7_Witness ==
    /\ ret.op \in {"find", "find_at"}
    /\ ret.val # None
    /\ MatchOf(ret.val).span # <<>>
    /\ ret.read > ret.args[2] + Len(MatchOf(ret.val).span)

\* A call of add_transition that did not return Some(()): it returned None
\* or it panicked.
Failed(r) == r.val # Some("()")

\* C8: add_transition(from, to, label) fails if and only if
\* from >= total_states or to >= total_states, the largest usize included;
\* a failing call leaves total_states, the final set and the table unchanged,
\* and a succeeding call sets table[from][label] = to and changes nothing else.
C8_AddTransitionChecksEndpoints ==
    [][ret'.op = "add_transition"
          => LET from == ret'.args[1]
                 to == ret'.args[2]
                 label == ret'.args[3]
             IN  /\ Failed(ret') <=> (from >= total_states \/ to >= total_states)
                 /\ UNCHANGED <<initial_state, total_states, final_states>>
                 /\ Failed(ret') => UNCHANGED transition
                 /\ ~Failed(ret')
                        => /\ <<from, label, to>> \in transition'
                           /\ \A e \in transition' :
                                 e = <<from, label, to>> \/ e \in transition
                           /\ \A e \in transition :
                                 (e[1] # from \/ e[2] # label) => e \in transition'
                           /\ \A e \in transition' :
                                 (e[1] = from /\ e[2] = label) => e[3] = to]_vars

\* C9: after any sequence of new, add_state and add_transition calls,
\* initial_state is 0, every source and target label in the transition table
\* is < total_states, and every member of final_states is < total_states.
C9_LabelsBelowTotalStates ==
    /\ initial_state = 0
    /\ \A e \in transition : e[1] < total_states /\ e[3] < total_states
    /\ \A s \in final_states : s < total_states

StoreIterShared(its, i, iter) ==
    [j \in DOMAIN its |-> IF j = i THEN iter ELSE [its[j] EXCEPT !.current = iter.current]]

StoreIter(its, i, iter) == [its EXCEPT ![i] = iter]

\* The second iterator reads the symbols of the first in the opposite order.
Reverse(s) == [k \in 1..Len(s) |-> s[Len(s) + 1 - k]]

IterInputs == <<arg_input, Reverse(arg_input)>>

\* Two iterators over one DFA, which has at most MaxStates states and at most
\* MaxTable transitions.
InitIter ==
    /\ initial_state = 0
    /\ total_states \in 1..MaxStates
    /\ final_states \in SUBSET (0..(total_states - 1))
    /\ transition \in {t \in Tables(total_states) : Cardinality(t) <= MaxTable}
    /\ issued = [i \in 1..(total_states - 1) |-> i]
    /\ arg_input \in Inputs
    /\ arg_start = 0
    /\ ret = NoCall
    /\ iters = [i \in 1..2 |-> iter_on(IterInputs[i])]
    /\ yielded = [i \in 1..2 |-> <<>>]
    /\ expr = <<>>
    /\ parse_ret = NoCall

\* One next() call on one of the iterators, in any order. A call on an
\* iterator whose input is used up returns None and changes nothing.
IterNext ==
    \E i \in DOMAIN iters :
        /\ iters[i].input # <<>>
        /\ LET r == iter_on_next(iters[i])
           IN  /\ iters' = StoreIter(iters, i, r.iter)
               /\ yielded' = [yielded EXCEPT ![i] = Append(@, r.item)]
        /\ UNCHANGED <<dfa, issued, arg_input, arg_start, ret, expr, parse_ret>>

NextIter == IterNext

SpecIter == InitIter /\ [][NextIter]_vars

\* What the first n next() calls return on an iterator that runs alone.
RECURSIVE NextItems(_, _)
NextItems(iter, n) ==
    IF n = 0
    THEN <<>>
    ELSE LET r == iter_on_next(iter) IN <<r.item>> \o NextItems(r.iter, n - 1)

\* C11: stepping never changes the DFA (total_states, final_states, the
\* transition table, the initial state), and under every interleaving of the
\* steps of two iterators over the same DFA each iterator has yielded exactly
\* what the same number of steps yield when it runs alone.
C11_InterleavedItersAreIndependent ==
    [][/\ UNCHANGED dfa
       /\ \A i \in DOMAIN iters :
              yielded'[i] = NextItems(iter_on(IterInputs[i]), Len(yielded'[i]))]_vars

\* Both iterators have stepped, one of them further than the other, and they
\* stand in different states of the DFA.
C11_Witness ==
    /\ DOMAIN iters = 1..2
    /\ Len(yielded[1]) = 2
    /\ Len(yielded[2]) = 1
    /\ yielded[1][1] # None
    /\ iters[1].current # iters[2].current


\* ------------------------------------------------- parser: input cursor

\* The characters a source is written in: two ordinary characters and the
\* characters the parser gives a meaning to.
Chars == {"a", "d", "(", ")", "[", "]", "|", "*", "+", "?", "\\", "-", "^", "."}

\* Span::new, without the text.
SpanNew(start, end) == [start |-> start, end |-> end]

\* ParseError: the variant, its span, the offending token and the expected
\* characters (both empty for the variants that do not carry them).
NoError == [kind |-> "none", span |-> SpanNew(0, 0), token |-> "", expected |-> <<>>]

EmptyExpression(span) ==
    [kind |-> "EmptyExpression", span |-> span, token |-> "", expected |-> <<>>]

UnexpectedToken(span, token, expected) ==
    [kind |-> "UnexpectedToken", span |-> span, token |-> token, expected |-> expected]

UnexpectedEof(span, expected) ==
    [kind |-> "UnexpectedEof", span |-> span, token |-> "", expected |-> expected]

\* A loop of the parser that goes round without taking a character and
\* without returning: parse never returns.
Hang == [kind |-> "hang", span |-> SpanNew(0, 0), token |-> "", expected |-> <<>>]

\* ParseInput::new. Sources are ASCII, so the byte offset of a character is
\* its index.
ParseInputNew(e) == [expr |-> e, next_pos |-> 0, char_pos |-> 0]

\* ParseInput::peek: the character under the cursor, if any.
peek(input) ==
    IF input.next_pos < Len(input.expr) THEN Some(input.expr[input.next_pos + 1]) ELSE None

peek_is(input, expected) == peek(input) = Some(expected)

\* ParseInput::next: [item |-> Option<char>, input |-> the cursor after the call].
next(input) ==
    IF peek(input) = None
    THEN [item |-> None, input |-> input]
    ELSE [item |-> peek(input),
          input |-> [input EXCEPT !.next_pos = @ + 1, !.char_pos = input.next_pos]]

current_span(input) ==
    LET pos == IF input.next_pos = 0 THEN 0 ELSE input.next_pos - 1
    IN  SpanNew(pos, pos)

current_eof_span(input) == SpanNew(input.next_pos, input.next_pos)

\* ParseResult<T> together with the cursor and the engine the call leaves
\* behind: st is [input |-> ParseInput, engine |-> the builder calls so far].
Ok(val, st) == [err |-> NoError, val |-> val, st |-> st]

Err(e, st) == [err |-> e, val |-> <<>>, st |-> st]

IsErr(r) == r.err.kind # "none"

Consumed(st, input) == [st EXCEPT !.input = input]

\* ParseInput::next_unwrap
next_unwrap(st, expected) ==
    LET n == next(st.input)
    IN  IF n.item # None
        THEN Ok(n.item[1], Consumed(st, n.input))
        ELSE Err(UnexpectedEof(current_eof_span(n.input), expected), Consumed(st, n.input))

\* A next_unchecked that leaves the cursor where it is.
next_uncheckedKeepsCursor(st) == st

\* ParseInput::next_unchecked, called only where peek has returned a character.
next_unchecked(st) == Consumed(st, next(st.input).input)

\* ParseInput::next_checked
next_checked(st, check, expected) ==
    LET n == next(st.input)
    IN  IF n.item = None
        THEN Err(UnexpectedEof(current_eof_span(n.input), expected), Consumed(st, n.input))
        ELSE IF n.item[1] = check
             THEN Ok(n.item[1], Consumed(st, n.input))
             ELSE Err(UnexpectedToken(current_span(n.input), n.item[1], expected),
                      Consumed(st, n.input))


\* ------------------------------------------------- parser: character classes

\* CharClass is a union of inclusive ranges; a class added whole to another
\* (a named class met inside brackets) is kept as a member of it.
CharClassNew == [ranges |-> {}, others |-> {}, complemented |-> FALSE]

\* From<char> and From<(char, char)>
CharClassFrom(s, e) == [ranges |-> {<<s, e>>}, others |-> {}, complemented |-> FALSE]

complement(class) == [class EXCEPT !.complemented = ~@]

decimal_number == CharClassFrom("0", "9")

whitespace == [ranges |-> {<<" ", " ">>, <<"\t", "\r">>}, others |-> {}, complemented |-> FALSE]

word ==
    [ranges |-> {<<"a", "z">>, <<"A", "Z">>, <<"0", "9">>, <<"_", "_">>}, others |-> {},
     complemented |-> FALSE]

newline == CharClassFrom("\n", "\n")

all_but_newline == complement(newline)

\* True iff the class is exactly one range of one character.
is_single(class) ==
    /\ ~class.complemented
    /\ class.others = {}
    /\ Cardinality(class.ranges) = 1
    /\ \A r \in class.ranges : r[1] = r[2]

is_empty(class) == class.ranges = {} /\ class.others = {}

add_range(class, r) == [class EXCEPT !.ranges = @ \cup r.ranges]

add_other(class, other) == [class EXCEPT !.others = @ \cup {other}]

\* start.ranges.into_iter().last().unwrap().start, on a class that is_single
RangeStart(class) == (CHOOSE r \in class.ranges : TRUE)[1]

\* ------------------------------------------------- parser: the AST engine

Atom(class) == <<"Atom", class>>

Unary(op, e) == <<"Unary", op, e>>

Binary(op, l, r) == <<"Binary", op, l, r>>

handle_char(class) == Atom(class)

handle_wildcard == handle_char(all_but_newline)

handle_star(lhs) == Unary("Star", lhs)

handle_concat(lhs, rhs) == Binary("Concat", lhs, rhs)

handle_plus(rhs) == handle_concat(handle_star(rhs), rhs)

handle_optional(lhs) == Unary("Optional", lhs)

handle_alternate(lhs, rhs) == Binary("Alternate", lhs, rhs)

\* The parser has called method call of its engine.
Issue(st, call) == [st EXCEPT !.engine = Append(@, call)]

\* ------------------------------------------------- parser: atoms

\* let x = r?; then(x): an Err is returned at once.
Try(r, then(_)) == CHOOSE y \in {IF IsErr(x) THEN x ELSE then(x) : x \in {r}} : TRUE

parse_single_char(st) == next_unwrap(st, <<>>)

parse_single(st) ==
    Try(parse_single_char(st),
        LAMBDA c : Ok(handle_char(CharClassFrom(c.val, c.val)), Issue(c.st, "handle_char")))

\* The result of next_checked('\\') is dropped; the character after the
\* backslash is required.
parse_escaped_char(st) ==
    Bind(next_checked(st, "\\", <<"\\">>), LAMBDA bs : next_unwrap(bs.st, <<>>))

parse_escaped_class(st) ==
    Try(parse_escaped_char(st),
        LAMBDA c : Ok(CASE c.val = "d" -> decimal_number
                        [] c.val = "D" -> complement(decimal_number)
                        [] c.val = "s" -> whitespace
                        [] c.val = "S" -> complement(whitespace)
                        [] c.val = "w" -> word
                        [] c.val = "W" -> complement(word)
                        [] c.val = "n" -> newline
                        [] OTHER -> CharClassFrom(c.val, c.val),
                      c.st))

parse_escaped(st) ==
    Try(parse_escaped_class(st), LAMBDA c : Ok(handle_char(c.val), Issue(c.st, "handle_char")))

parse_single_or_escaped_class(st) ==
    CASE peek(st.input) = Some("\\") -> parse_escaped_class(st)
      [] peek(st.input) = None -> Err(UnexpectedEof(current_eof_span(st.input), <<"\\">>), st)
      [] OTHER -> Try(parse_single_char(st), LAMBDA c : Ok(CharClassFrom(c.val, c.val), c.st))

parse_wildcard_char(st) == next_checked(st, ".", <<".">>)

parse_wildcard(st) ==
    Try(parse_wildcard_char(st), LAMBDA c : Ok(handle_wildcard, Issue(c.st, "handle_wildcard")))

\* ------------------------------------------------- parser: classes, groups, expressions

RECURSIVE parse_expr(_, _, _)

\* The end of a range whose start is the single character of class start.
ClassRange(dash, class, start) ==
    Try(parse_single_or_escaped_class(dash),
        LAMBDA end :
            IF ~is_single(end.val)
            THEN Ok(add_other(add_range(add_other(class, start), CharClassFrom("-", "-")),
                              end.val),
                    end.st)
            ELSE Ok(add_range(class, CharClassFrom(RangeStart(start), RangeStart(end.val))),
                    end.st))

\* One iteration of the while loop of parse_class whose peek is neither
\* end-of-input nor ']': the class after it.
ClassItem(st, class) ==
    Try(parse_single_or_escaped_class(st),
        LAMBDA start :
            IF ~is_single(start.val)
            THEN Ok(add_other(class, start.val), start.st)
            ELSE CASE peek(start.st.input) = Some("-") ->
                        ClassRange(next_unchecked(start.st), class, start.val)
                   [] peek(start.st.input) = None ->
                        Err(UnexpectedEof(current_eof_span(start.st.input), <<"]", "-">>),
                            start.st)
                   [] OTHER ->
                        Ok(add_range(class, CharClassFrom(RangeStart(start.val),
                                                          RangeStart(start.val))),
                           start.st))

\* The while loop of parse_class: it ends at ']' and at end-of-input.
RECURSIVE ClassLoop(_, _)
ClassLoop(st, class) ==
    IF peek(st.input) = None \/ peek(st.input) = Some("]")
    THEN Ok(class, st)
    ELSE Try(ClassItem(st, class),
             LAMBDA item :
                 IF item.st.input.next_pos = st.input.next_pos
                 THEN Err(Hang, item.st)
                 ELSE ClassLoop(item.st, item.val))

\* The end of parse_class: the result of next_checked(']') is dropped, and a
\* class that is_empty gives no output.
ClassClose(st, class, negate) ==
    Bind(next_checked(st, "]", <<"]">>),
         LAMBDA rb :
             IF ~is_empty(class)
             THEN Ok(Some(handle_char(IF negate THEN complement(class) ELSE class)),
                     Issue(rb.st, "handle_char"))
             ELSE Ok(None, rb.st))

parse_class(st) ==
    Try(next_checked(st, "[", <<"[">>),
        LAMBDA lb :
            IF peek(lb.st.input) = None
            THEN Err(UnexpectedEof(current_eof_span(lb.st.input), <<"]", "^">>), lb.st)
            ELSE LET negate == peek(lb.st.input) = Some("^")
                 IN  Try(ClassLoop(IF negate THEN next_unchecked(lb.st) ELSE lb.st,
                                   CharClassNew),
                         LAMBDA body : ClassClose(body.st, body.val, negate)))

parse_group(st) ==
    Try(next_checked(st, "(", <<"(">>),
        LAMBDA lp :
            Try(IF ~peek_is(lp.st.input, ")")
                THEN Try(parse_expr(lp.st, 0, TRUE), LAMBDA e : Ok(Some(e.val), e.st))
                ELSE Ok(None, lp.st),
                LAMBDA expr_ :
                    Try(next_checked(expr_.st, ")", <<")">>),
                        LAMBDA rp : Ok(expr_.val, rp.st))))

EXPR_START_EXPECTED == <<"(", "[">>

postfix_bp(op) ==
    CASE op = "Star" -> <<9, <<>>>>
      [] op = "Plus" -> <<9, <<>>>>
      [] op = "Optional" -> <<9, <<>>>>

\* Binding powers that put alternation above concatenation.
infix_bpAlternateTighter(op) ==
    CASE op = "Concat" -> <<5, 6>>
      [] op = "Alternate" -> <<7, 8>>

infix_bp(op) ==
    CASE op = "Concat" -> <<7, 8>>
      [] op = "Alternate" -> <<5, 6>>

\* The first match of parse_expr without its arm for ')'.
LhsArmWithoutCloseParen(c, parenthesized) ==
    CASE c = "\\" -> "escaped"
      [] c = "(" -> "group"
      [] c = "[" -> "class"
      [] c = "." -> "wildcard"
      [] c \in {"?", "*", "|"} -> "unexpected"
      [] OTHER -> "single"

\* The arm the first match of parse_expr takes on character c.
LhsArm(c, parenthesized) ==
    CASE c = "\\" -> "escaped"
      [] c = "(" -> "group"
      [] c = ")" /\ ~parenthesized -> "unexpected"
      [] c = "[" -> "class"
      [] c = "." -> "wildcard"
      [] c \in {"?", "*", "|"} -> "unexpected"
      [] OTHER -> "single"

\* The None arm of the first match: no expression starts at end-of-input.
ExprAtEofIsUnexpectedEof(st) == Err(UnexpectedEof(current_eof_span(st.input), <<>>), st)

ExprAtEof(st) == Err(EmptyExpression(current_span(st.input)), st)

\* Some(x?) of the first match: an atom that was parsed is the left-hand side.
SomeOf(r) == Try(r, LAMBDA x : Ok(Some(x.val), x.st))

\* One iteration of the first loop of parse_expr: Option<Output>, or the
\* error the iteration returns.
LhsStep(st, parenthesized) ==
    IF peek(st.input) = None
    THEN ExprAtEof(st)
    ELSE LET c == peek(st.input)[1]
             arm == LhsArm(c, parenthesized)
         IN  CASE arm = "escaped" -> SomeOf(parse_escaped(st))
               [] arm = "group" -> parse_group(st)
               [] arm = "class" -> parse_class(st)
               [] arm = "wildcard" -> SomeOf(parse_wildcard(st))
               [] arm = "single" -> SomeOf(parse_single(st))
               [] arm = "unexpected" ->
                    Bind(next_unchecked(st),
                         LAMBDA n : Err(UnexpectedToken(current_span(n.input), c,
                                                        EXPR_START_EXPECTED),
                                        n))

\* while lhs.is_none()
RECURSIVE LhsLoop(_, _)
LhsLoop(st, parenthesized) ==
    Try(LhsStep(st, parenthesized),
        LAMBDA lhs :
            IF lhs.val # None
            THEN Ok(lhs.val[1], lhs.st)
            ELSE IF lhs.st.input.next_pos = st.input.next_pos
            THEN Err(Hang, lhs.st)
            ELSE LhsLoop(lhs.st, parenthesized))

\* The second loop stops at every ')', inside a group or not.
RhsArmBreaksAtEveryCloseParen(c, parenthesized) ==
    CASE c = ")" -> "break"
      [] c = "*" -> "Star"
      [] c = "+" -> "Plus"
      [] c = "?" -> "Optional"
      [] c = "|" -> "Alternate"
      [] OTHER -> "Concat"

\* The arm the second match of parse_expr takes on character c.
RhsArm(c, parenthesized) ==
    CASE c = ")" /\ parenthesized -> "break"
      [] c = "*" -> "Star"
      [] c = "+" -> "Plus"
      [] c = "?" -> "Optional"
      [] c = "|" -> "Alternate"
      [] OTHER -> "Concat"

\* if lbp < min_bp { break; }, and the break on ')'.
RhsBreaks(arm, min_bp) ==
    CASE arm = "break" -> TRUE
      [] arm \in {"Star", "Plus", "Optional"} -> postfix_bp(arm)[1] < min_bp
      [] OTHER -> infix_bp(arm)[1] < min_bp

\* One iteration of the second loop that does not break: the new left-hand
\* side, or the error the iteration returns.
RhsStep(st, lhs, arm, parenthesized) ==
    CASE arm = "Star" -> Ok(handle_star(lhs), Issue(next_unchecked(st), "handle_star"))
      [] arm = "Plus" -> Ok(handle_plus(lhs), Issue(next_unchecked(st), "handle_plus"))
      [] arm = "Optional" ->
            Ok(handle_optional(lhs), Issue(next_unchecked(st), "handle_optional"))
      [] arm = "Alternate" ->
            Try(parse_expr(next_unchecked(st), infix_bp("Alternate")[2], parenthesized),
                LAMBDA rhs : Ok(handle_alternate(lhs, rhs.val),
                                Issue(rhs.st, "handle_alternate")))
      [] arm = "Concat" ->
            Try(parse_expr(st, infix_bp("Concat")[2], parenthesized),
                LAMBDA rhs : Ok(handle_concat(lhs, rhs.val), Issue(rhs.st, "handle_concat")))

\* while let Some((_, c)) = input.peek(), from left-hand side lhs on.
RECURSIVE RhsLoop(_, _, _, _)
RhsLoop(st, lhs, min_bp, parenthesized) ==
    IF peek(st.input) = None
    THEN Ok(lhs, st)
    ELSE LET arm == RhsArm(peek(st.input)[1], parenthesized)
         IN  IF RhsBreaks(arm, min_bp)
             THEN Ok(lhs, st)
             ELSE Try(RhsStep(st, lhs, arm, parenthesized),
                      LAMBDA iteration :
                          IF iteration.st.input.next_pos = st.input.next_pos
                          THEN Err(Hang, iteration.st)
                          ELSE RhsLoop(iteration.st, iteration.val, min_bp, parenthesized))

parse_expr(st, min_bp, parenthesized) ==
    Try(LhsLoop(st, parenthesized),
        LAMBDA lhs : RhsLoop(lhs.st, lhs.val, min_bp, parenthesized))

\* ParserState::parse: a fresh cursor on expr, and the engine of this parser.
parse(e) == parse_expr([input |-> ParseInputNew(e), engine |-> <<>>], 0, FALSE)

\* ------------------------------------------------- parsing a source

\* The sources of at most MaxSrcLen characters.
\* The sources handed to parse: every string of at most MaxSrcLen characters,
\* and the strings one character longer that are made of parentheses, '|' and
\* a letter, which hold the nested and alternated groups.
ParenChars == {"(", ")", "|", "a"}

Sources ==
    UNION {[1..n -> Chars] : n \in 0..MaxSrcLen} \cup [1..(MaxSrcLen + 1) -> ParenChars]

InitParse ==
    /\ new
    /\ issued = <<>>
    /\ arg_input = <<>>
    /\ arg_start = 0
    /\ ret = NoCall
    /\ iters = <<>>
    /\ yielded = <<>>
    /\ expr \in Sources
    /\ parse_ret = NoCall

\* Parser::parse(expr) on a new parser.
Parse ==
    /\ parse_ret.op = "new"
    /\ \E r \in {parse(expr)} :
           parse_ret' = [op |-> "parse", args |-> <<expr>>, val |-> r,
                         read |-> r.st.input.next_pos]
    /\ UNCHANGED <<dfa, issued, arg_input, arg_start, ret, iters, yielded, expr>>

NextParse == Parse

SpecParse == InitParse /\ [][NextParse]_vars


\* ------------------------------------------------- the grammar of regular expressions

\* The sources the grammar of the language derives, by length: an atom is an
\* ordinary character, the wildcard, an escape, a group around an expression
\* or a closed class that is not empty; a term is an atom under postfix
\* operators, a concatenation a sequence of terms, an expression an
\* alternation of concatenations.
Letters == {"a", "d"}

Postfix == {"*", "+", "?"}

Joined(A, B) == {x \o y : x \in A, y \in B}

ClassItems(n) ==
    CASE n = 1 -> {<<c>> : c \in Letters}
      [] n = 2 -> {<<"\\", c>> : c \in Chars}
      [] n = 3 -> {<<x, "-", y>> : x \in Letters, y \in Letters}
      [] OTHER -> {}

\* The sequences of class items of n characters in all.
ClassBodies[n \in 0..MaxSrcLen] ==
    IF n = 0
    THEN {<<>>}
    ELSE UNION {Joined(ClassItems(k), ClassBodies[n - k]) : k \in 1..n}

Classes(n) ==
    (IF n >= 3 THEN {<<"[">> \o b \o <<"]">> : b \in ClassBodies[n - 2]} ELSE {})
    \cup (IF n >= 4 THEN {<<"[", "^">> \o b \o <<"]">> : b \in ClassBodies[n - 3]} ELSE {})

Grammar[n \in 0..(MaxSrcLen - 1)] ==
    LET atom == CASE n = 0 -> {}
                  [] n = 1 -> {<<c>> : c \in Letters \cup {"."}}
                  [] n = 2 -> {<<"\\", c>> : c \in Chars}
                  [] OTHER -> {<<"(">> \o e \o <<")">> : e \in Grammar[n - 2].expr}
                              \cup Classes(n)
        term == atom \cup (IF n >= 2
                           THEN Joined(Grammar[n - 1].term, {<<p>> : p \in Postfix})
                           ELSE {})
        cat == term \cup UNION {Joined(Grammar[k].term, Grammar[n - k].cat) : k \in 1..(n - 1)}
        expr_ == cat \cup UNION {Joined(Joined(Grammar[k].cat, {<<"|">>}), Grammar[n - k - 1].expr) :
                                 k \in 1..(n - 2)}
    IN  [term |-> term, cat |-> cat, expr |-> expr_]

\* The well-formed regular expressions that leave room for one more character
\* in a source: those of fewer than MaxSrcLen characters.
Regexes == UNION {Grammar[n].expr : n \in 0..(MaxSrcLen - 1)}


\* ------------------------------------------------- claims about the parser

Parsed == parse_ret.op = "parse"

Failure == parse_ret.val.err

Succeeded == Parsed /\ ~IsErr(parse_ret.val)

\* Runs of empty groups and empty classes, of at most MaxSrcLen characters.
EmptyRuns[n \in 0..MaxSrcLen] ==
    IF n < 2
    THEN {<<>>}
    ELSE {<<>>} \cup Joined({<<"(", ")">>, <<"[", "]">>}, EmptyRuns[n - 2])

\* The sources in which an expression has to start where the source ends:
\* nothing, or a well-formed expression and '|', and then only empty groups
\* and empty classes.
EndsWhereExprStarts ==
    Joined({<<>>} \cup Joined(Regexes, {<<"|">>}), EmptyRuns[MaxSrcLen])

\* C12: parse fails with EmptyExpression when an expression starts at
\* end-of-input: on the empty source, on a source that ends right after '|',
\* and on a source in which only empty groups or empty classes come before
\* the end.
C12_EmptyExpressionAtEndOfInput ==
    Parsed /\ expr \in EndsWhereExprStarts => Failure.kind = "EmptyExpression"

\* A well-formed expression, '|', an empty group, and then the end.
C12_Witness ==
    /\ Parsed
    /\ expr \in EndsWhereExprStarts
    /\ Len(expr) = 4
    /\ expr[2] = "|"
    /\ Failure.kind = "EmptyExpression"


Operators == {"*", "+", "?", "|"}

\* What can stand before a place where an atom is expected: nothing, an open
\* parenthesis (at the start or after a well-formed expression), or a
\* well-formed expression and '|'.
BeforeAtom ==
    {<<>>, <<"(">>} \cup Joined(Regexes, {<<"|">>}) \cup Joined(Regexes, {<<"(">>})

\* The positions of expr that hold an operator where an atom is expected.
OperatorAtAtom ==
    {k \in 1..Len(expr) : expr[k] \in Operators /\ SubSeq(expr, 1, k - 1) \in BeforeAtom}

\* C13: each of '*', '+', '?' and '|' standing where an atom is expected (at
\* the start of the source, right after '(' or right after '|') makes parse
\* fail with UnexpectedToken carrying that character, and no output is
\* returned.
C13_OperatorWhereAtomExpected ==
    Parsed =>
        \A k \in OperatorAtAtom :
            /\ Failure.kind = "UnexpectedToken"
            /\ Failure.token = expr[k]
            /\ parse_ret.val.val = <<>>


\* An open parenthesis and a well-formed expression, with no ')' after it.
UnclosedGroups == Joined({<<"(">>}, Regexes)

\* C14: a group that is never closed makes parse fail with UnexpectedEof: the
\* source "(" alone, and every "(" followed by a well-formed expression and
\* no ')'.
C14_UnclosedGroupIsUnexpectedEof ==
    Parsed /\ (expr = <<"(">> \/ expr \in UnclosedGroups) => Failure.kind = "UnexpectedEof"


\* expr is a member of A followed by a member of B.
SplitsInto(A, B) ==
    \E k \in 0..Len(expr) :
        SubSeq(expr, 1, k) \in A /\ SubSeq(expr, k + 1, Len(expr)) \in B

\* The open end of a class: '[', any number of class items and no ']'.
OpenClasses ==
    Joined({<<"[">>, <<"[", "^">>}, UNION {ClassBodies[n] : n \in 0..MaxSrcLen})

\* A source that ends inside a class, at the start or after a well-formed
\* expression.
EndsInClass == SplitsInto({<<>>} \cup Regexes, OpenClasses)

\* A source that ends with the backslash of an escape.
EndsInEscape == SplitsInto({<<>>} \cup Regexes, {<<"\\">>})

\* C15: a class that is never closed, or a backslash at the end of the
\* source, makes parse fail with UnexpectedEof: every source that ends after
\* '[' and any number of class items with no ']' is rejected.
C15_UnclosedClassIsUnexpectedEof ==
    Parsed /\ (EndsInClass \/ EndsInEscape) => Failure.kind = "UnexpectedEof"


\* What can stand before a ')' met at top level: nothing, a well-formed
\* expression (which ends with an atom, a closed group or a postfix
\* operator), or a well-formed expression and '|'.
BeforeTopLevel == {<<>>} \cup Regexes \cup Joined(Regexes, {<<"|">>})

\* The positions of expr that hold a ')' with no open group to close.
StrayCloseParens ==
    {k \in 1..Len(expr) : expr[k] = ")" /\ SubSeq(expr, 1, k - 1) \in BeforeTopLevel}

\* C16: an unescaped ')' outside a class, with no open group to close, makes
\* parse fail with UnexpectedToken, wherever it stands at top level: at the
\* start, after an atom, after a closed group or after '|'.
C16_StrayCloseParenIsUnexpectedToken ==
    Parsed /\ StrayCloseParens # {} =>
        Failure.kind = "UnexpectedToken" /\ Failure.token = ")"

\* A ')' after a closed group.
C16_Witness ==
    /\ Parsed
    /\ expr = <<"(", "a", ")", ")">>
    /\ StrayCloseParens = {4}
    /\ Failure.kind = "UnexpectedToken"


Output == parse_ret.val.val

\* The output for one ordinary character.
Lit(c) == Atom(CharClassFrom(c, c))

\* C17: postfix operators bind tighter than concatenation and concatenation
\* tighter than alternation: "a*b" is concat(star(a), b), "ab*" is
\* concat(a, star(b)), "a|bc" is alternate(a, concat(b, c)) and "ab|c" is
\* alternate(concat(a, b), c), for any ordinary characters a, b, c.
C17_Precedence ==
    Parsed =>
        \A a \in Letters, b \in Letters, c \in Letters :
            /\ expr = <<a, "*", b>> =>
                   Succeeded /\ Output = Binary("Concat", Unary("Star", Lit(a)), Lit(b))
            /\ expr = <<a, b, "*">> =>
                   Succeeded /\ Output = Binary("Concat", Lit(a), Unary("Star", Lit(b)))
            /\ expr = <<a, "|", b, c>> =>
                   Succeeded /\ Output = Binary("Alternate", Lit(a), Binary("Concat", Lit(b), Lit(c)))
            /\ expr = <<a, b, "|", c>> =>
                   Succeeded /\ Output = Binary("Alternate", Binary("Concat", Lit(a), Lit(b)), Lit(c))

C17_Witness ==
    /\ Succeeded
    /\ expr = <<"a", "|", "d", "a">>
    /\ parse_ret.val.st.engine =
           <<"handle_char", "handle_char", "handle_char", "handle_concat", "handle_alternate">>


Calls == parse_ret.val.st.engine

\* parse(e) succeeds with the output and the builder calls of the parse of expr.
ParsesAlike(e) ==
    LET r == parse(e)
    IN  /\ ~IsErr(r)
        /\ r.val = Output
        /\ r.st.engine = Calls

\* C18: groups are transparent: for every source r that parses successfully,
\* parse("(" + r + ")") succeeds too, with the same sequence of builder calls
\* and the same output.
C18_GroupsAreTransparent ==
    Succeeded => ParsesAlike(<<"(">> \o expr \o <<")">>)


\* The ways to write expr as a well-formed expression r1 followed by a
\* well-formed expression r2: the length of r1.
RegexSplits ==
    {k \in 1..(Len(expr) - 1) :
        SubSeq(expr, 1, k) \in Regexes /\ SubSeq(expr, k + 1, Len(expr)) \in Regexes}

\* C19: an empty group is the epsilon expression and concatenates normally:
\* for all well-formed r, r1, r2 the sources "()" + r, r + "()" and
\* r1 + "()" + r2 parse successfully, with the output of r, r and r1 + r2.
C19_EmptyGroupIsEpsilon ==
    Succeeded /\ expr \in Regexes =>
        /\ ParsesAlike(<<"(", ")">> \o expr)
        /\ ParsesAlike(expr \o <<"(", ")">>)
        /\ \A k \in RegexSplits :
               ParsesAlike(SubSeq(expr, 1, k) \o <<"(", ")">> \o SubSeq(expr, k + 1, Len(expr)))


\* C20: parse terminates on every finite source: it returns an output or one
\* of its errors and never goes round a loop for ever, because every
\* iteration of the two loops of parse_expr (and of the loop of parse_class)
\* either returns or consumes at least one character; the cursor never
\* passes the end of the source.
C20_ParseTerminates ==
    Parsed =>
        /\ Failure.kind \in {"none", "EmptyExpression", "UnexpectedToken", "UnexpectedEof"}
        /\ parse_ret.read <= Len(expr)

\* Empty groups and an empty class and nothing else: the first loop goes
\* round once for each of them.
C20_Witness ==
    /\ Parsed
    /\ expr = <<"(", ")", "[", "]">>
    /\ Failure.kind = "EmptyExpression"
    /\ parse_ret.read = 4


\* expr is one closed class: '[', '^' or not, a sequence of class items, ']'.
IsClosedClass ==
    /\ Len(expr) >= 2
    /\ expr[1] = "["
    /\ expr[Len(expr)] = "]"
    /\ \/ SubSeq(expr, 2, Len(expr) - 1) \in ClassBodies[Len(expr) - 2]
       \/ /\ Len(expr) >= 3
          /\ expr[2] = "^"
          /\ SubSeq(expr, 3, Len(expr) - 1) \in ClassBodies[Len(expr) - 3]

\* The closed class expr is negated, and the items between its brackets.
ClassNegated == Len(expr) >= 3 /\ expr[2] = "^"

ClassBody == SubSeq(expr, IF ClassNegated THEN 3 ELSE 2, Len(expr) - 1)

\* C21: when a class closes, the complement is applied first if '^' was set
\* and the class is emitted through handle_char if and only if the result has
\* content: "[]" emits nothing, a class with items is emitted, and a negated
\* class is judged after the complement, so "[^]" emits the class of all
\* characters.
C21_ClassEmittedIffContentAfterComplement ==
    Parsed /\ IsClosedClass =>
        /\ Succeeded <=> (ClassNegated \/ ClassBody # <<>>)
        /\ Succeeded => Calls = <<"handle_char">> /\ Output[2].complemented = ClassNegated
        /\ ~Succeeded => Calls = <<>> /\ Failure.kind = "EmptyExpression"


\* C22: the stepping iterator halts for good: once a step has returned
\* nothing, because the input is used up or because no transition of the
\* current state matches the symbol, every later step returns nothing too, so
\* the items yielded are a run over a prefix of the input followed by nothing.
C22_IterHaltsForGood ==
    \A i \in DOMAIN yielded :
        \A k, j \in DOMAIN yielded[i] :
            k < j /\ yielded[i][k] = None => yielded[i][j] = None


\* C23: the state returned alongside a Match is the last state the automaton
\* traversed during the search from position start: under leftmost-longest
\* the state in which it died or the input ended, which may lie beyond the
\* match and be non-final; under shortest the final state at which the match
\* ended; and the initial state when the search took no step.
C23_ReturnedStateIsLastTraversed ==
    (ret.op \in FindOps /\ ret.val # None)
        => LET w == Drop(arg_input, ret.args[2])
               W == Walk(initial_state, w)
           IN  /\ FinalPositions(w) # {}
               /\ StateOf(ret.val) =
                      IF ret.op \in ShortestOps
                      THEN StateAt(W, SetMin(FinalPositions(w)))
                      ELSE StateAt(W, Len(W))


\* C24: DFA execution never fails: for every DFA, input, start and shortest
\* flag, find_at_impl returns nothing or a match and a state, and never
\* reaches its unreachable! branch: when the result is finalized every
\* reference in the span of the last recorded match is the only one to its
\* allocation, the buffer and the superseded matches having been dropped.
C24_FindNeverReachesUnreachable ==
    ret.op \in FindOps =>
        /\ ret.val # Unreachable
        /\ ret.val = None \/ (Len(ret.val) = 1 /\ Len(ret.val[1]) = 2)

\* A leftmost-longest search replaced the empty match of a final initial state
\* by a longer one and went on pushing to the buffer after it.
C24_Witness ==
    /\ ret.op \in {"find", "find_at"}
    /\ initial_state \in final_states
    /\ ret.val # None
    /\ ret.val # Unreachable
    /\ MatchOf(ret.val).span # <<>>
    /\ ret.read > ret.args[2] + Len(MatchOf(ret.val).span)


\* The unescaped parentheses of s outside character classes are balanced:
\* read from left to right with depth open groups, no ')' comes without an
\* open group and no group is left open. A backslash takes the character
\* after it, and a class runs from '[' to the first ']'.
RECURSIVE Balanced(_, _, _)
Balanced(s, depth, in_class) ==
    IF s = <<>> THEN depth = 0
    ELSE IF Head(s) = "\\"
         THEN Balanced(IF Len(s) >= 2 THEN Tail(Tail(s)) ELSE <<>>, depth, in_class)
    ELSE IF in_class THEN Balanced(Tail(s), depth, Head(s) # "]")
    ELSE IF Head(s) = "[" THEN Balanced(Tail(s), depth, TRUE)
    ELSE IF Head(s) = "(" THEN Balanced(Tail(s), depth + 1, FALSE)
    ELSE IF Head(s) = ")" THEN depth > 0 /\ Balanced(Tail(s), depth - 1, FALSE)
    ELSE Balanced(Tail(s), depth, FALSE)

\* The classes handed to handle_char that make up the output.
RECURSIVE Atoms(_)
Atoms(ast) ==
    CASE ast[1] = "Atom" -> {ast}
      [] ast[1] = "Unary" -> Atoms(ast[3])
      [] ast[1] = "Binary" -> Atoms(ast[3]) \cup Atoms(ast[4])

\* The characters with a meaning of their own where an atom is expected.
Metacharacters == {"(", ")", "|", "*", "+", "?"}

\* No backslash and no class in expr: every atom of the output is then a
\* single character of expr read as itself.
PlainSource == \A k \in 1..Len(expr) : expr[k] \notin {"\\", "["}

\* C25: whenever parse returns Ok, the unescaped parentheses outside
\* character classes in the source are balanced, and no metacharacter was
\* handed to handle_char as a single-character atom, in particular not a ')'
\* standing where an atom is expected inside a group, as in "(a|))".
C25_OkHasBalancedParensAndNoLiteralMetacharacter ==
    Succeeded =>
        /\ Balanced(expr, 0, FALSE)
        /\ PlainSource => \A c \in Metacharacters : Lit(c) \notin Atoms(Output)


\* C26: whenever the top-level parse returns Ok, the cursor is at the end of
\* the input: every character of the source was consumed, and the top-level
\* loop never stops early leaving characters unparsed.
C26_OkMeansAllInputConsumed ==
    Succeeded => parse_ret.read = Len(expr) /\ peek(parse_ret.val.st.input) = None

\* A successful parse of a source in which a group is closed and an atom
\* follows the ')': the second loop met a ')' inside the group, and the
\* top-level loop went on after it.
C26_Witness ==
    /\ Succeeded
    /\ PlainSource
    /\ Len(expr) >= 4
    /\ expr[1] = "("
    /\ expr[2] \in Letters
    /\ \E k \in 1..(Len(expr) - 1) : expr[k] = ")" /\ expr[k + 1] \in Letters
    /\ parse_ret.read = Len(expr)

====
